---- MODULE Spec2Model ----
(***************************************************************************)
(* Model of statistical-tests-rs (src/src/lib.rs): mean, the two standard  *)
(* deviations, the from_array constructors and two_samp_t_test.            *)
(*                                                                         *)
(* The library is pure f64 arithmetic, so the model carries an IEEE-754    *)
(* binary floating-point arithmetic: signed zeros, subnormals, infinities, *)
(* NaN, and round-to-nearest-even after every operation.  f64 has 53 bits  *)
(* of precision and a maximal exponent of 1023; the model keeps the very   *)
(* same arithmetic with Prec bits of precision and maximal exponent EMax,  *)
(* so that every value of the format can be enumerated.                    *)
(***************************************************************************)
EXTENDS Integers, Sequences, FiniteSets

\* ------------------------------------------------------------------ bounds
\* Bits of precision of the float format (f64: 53).
Prec == 3
\* Largest exponent of the float format (f64: 1023); the smallest is 1 - EMax.
EMax == 2
\* Longest input slice.
MaxLen == 3
\* Largest sample size n of a SampleStatistics written as a struct literal.
MaxN == 2

\* ------------------------------------------------------- the float format
RECURSIVE Pow2(_)
Pow2(e) == IF e <= 0 THEN 1 ELSE 2 * Pow2(e - 1)

\* Finite magnitudes are whole multiples of the smallest subnormal,
\* 2^-UnitExp; a magnitude k stands for the real number k * 2^-UnitExp.
UnitExp == Prec - 2 + EMax
\* The magnitude of 1.0.
OneMag == Pow2(UnitExp)
\* The magnitude of the largest finite value, f64::MAX.
MaxMag == (Pow2(Prec) - 1) * Pow2(2 * EMax - 1)

\* A float: class c, sign bit s (1 is negative), magnitude k (finite only).
NaN == [c |-> "nan", s |-> 0, k |-> 0]
Inf(s) == [c |-> "inf", s |-> s, k |-> 0]
Fin(s, k) == [c |-> "fin", s |-> s, k |-> k]
PZero == Fin(0, 0)
NZero == Fin(1, 0)
PInf == Inf(0)
NInf == Inf(1)

IsNaN(x) == x.c = "nan"
IsInf(x) == x.c = "inf"
IsFinite(x) == x.c = "fin"
IsZero(x) == x.c = "fin" /\ x.k = 0

\* The spacing of the representable magnitudes around q.
RECURSIVE Ulp(_)
Ulp(q) == IF q < Pow2(Prec) THEN 1 ELSE 2 * Ulp(q \div 2)

\* Is the magnitude k a value of the format?
Representable(k) == k >= 0 /\ k <= MaxMag /\ k % Ulp(k) = 0

\* Every float of the format.
Floats ==
  {NaN, PInf, NInf} \cup {Fin(s, k) : s \in {0, 1}, k \in {j \in 0..MaxMag : Representable(j)}}

\* The magnitude lo + g or lo nearest to the real x with lo <= x < lo + g,
\* where cmp is the sign of x - (lo + g/2); a tie goes to the even mantissa.
Nearest(lo, g, cmp) ==
  IF cmp < 0 THEN lo
  ELSE IF cmp > 0 THEN lo + g
  ELSE IF (lo \div g) % 2 = 0 THEN lo ELSE lo + g

\* The float of sign s nearest to the real (a / b) * 2^-UnitExp, a >= 0, b > 0;
\* a result above f64::MAX overflows to the infinity of that sign.
Round(s, a, b) ==
  LET q == a \div b
      g == Ulp(q)
      lo == (q \div g) * g
      rem2 == 2 * (a - lo * b)
      cmp == IF rem2 < g * b THEN -1 ELSE IF rem2 > g * b THEN 1 ELSE 0
      k == Nearest(lo, g, cmp)
  IN IF k > MaxMag THEN Inf(s) ELSE Fin(s, k)

RECURSIVE ISqrt(_)
ISqrt(n) ==
  IF n < 2 THEN n
  ELSE LET r == 2 * ISqrt(n \div 4)
       IN IF (r + 1) * (r + 1) <= n THEN r + 1 ELSE r

\* The float nearest to sqrt(n) * 2^-UnitExp, n >= 0.
RoundSqrt(n) ==
  LET q == ISqrt(n)
      g == Ulp(q)
      lo == (q \div g) * g
      mid2 == (2 * lo + g) * (2 * lo + g)
      cmp == IF 4 * n < mid2 THEN -1 ELSE IF 4 * n > mid2 THEN 1 ELSE 0
      k == Nearest(lo, g, cmp)
  IN IF k > MaxMag THEN PInf ELSE Fin(0, k)

\* The signed whole number of units a finite float stands for.
Signed(x) == IF x.s = 1 THEN 0 - x.k ELSE x.k
Xor(s, t) == IF s = t THEN 0 ELSE 1

FNeg(x) == IF IsNaN(x) THEN NaN ELSE [x EXCEPT !.s = 1 - x.s]

\* x + y
FAdd(x, y) ==
  IF IsNaN(x) \/ IsNaN(y) THEN NaN
  ELSE IF IsInf(x) /\ IsInf(y) THEN (IF x.s = y.s THEN x ELSE NaN)
  ELSE IF IsInf(x) THEN x
  ELSE IF IsInf(y) THEN y
  ELSE LET t == Signed(x) + Signed(y)
       IN IF t = 0 THEN (IF x.s = 1 /\ y.s = 1 THEN NZero ELSE PZero)
          ELSE IF t < 0 THEN Round(1, 0 - t, 1)
          ELSE Round(0, t, 1)

\* x - y
FSub(x, y) == FAdd(x, FNeg(y))

\* x * y
FMul(x, y) ==
  IF IsNaN(x) \/ IsNaN(y) THEN NaN
  ELSE IF (IsInf(x) /\ IsZero(y)) \/ (IsZero(x) /\ IsInf(y)) THEN NaN
  ELSE IF IsInf(x) \/ IsInf(y) THEN Inf(Xor(x.s, y.s))
  ELSE Round(Xor(x.s, y.s), x.k * y.k, OneMag)

\* x / y
FDiv(x, y) ==
  IF IsNaN(x) \/ IsNaN(y) THEN NaN
  ELSE IF (IsInf(x) /\ IsInf(y)) \/ (IsZero(x) /\ IsZero(y)) THEN NaN
  ELSE IF IsInf(x) \/ IsZero(y) THEN Inf(Xor(x.s, y.s))
  ELSE IF IsInf(y) THEN Fin(Xor(x.s, y.s), 0)
  ELSE Round(Xor(x.s, y.s), x.k * OneMag, y.k)

\* x.sqrt()
FSqrt(x) ==
  IF IsNaN(x) THEN NaN
  ELSE IF IsZero(x) THEN x
  ELSE IF x.s = 1 THEN NaN
  ELSE IF IsInf(x) THEN PInf
  ELSE RoundSqrt(x.k * OneMag)

\* f64::powf(x, 2.0): the square of x, rounded once (NaN for NaN, +inf for
\* either infinity, +0.0 for either zero).
FPowf2(x) == FMul(x, x)

\* n as f64
FromUsize(n) == Round(0, n * OneMag, 1)

\* x == y on f64: false when either is NaN, and -0.0 == 0.0.
FEq(x, y) ==
  /\ ~IsNaN(x) /\ ~IsNaN(y)
  /\ \/ IsInf(x) /\ IsInf(y) /\ x.s = y.s
     \/ IsFinite(x) /\ IsFinite(y) /\ Signed(x) = Signed(y)

\* x <= y on f64: false when either is NaN.
FLe(x, y) ==
  /\ ~IsNaN(x) /\ ~IsNaN(y)
  /\ \/ FEq(x, y)
     \/ IsInf(x) /\ x.s = 1
     \/ IsInf(y) /\ y.s = 0
     \/ IsFinite(x) /\ IsFinite(y) /\ Signed(x) < Signed(y)

\* The literals 1.0 and 0.0.
One == Fin(0, OneMag)

\* ------------------------------------------------------------- the state
VARIABLES
  array,      \* the slice handed to mean, the deviations and from_array
  sum_zero,   \* the value <f64 as Sum>::sum starts from: 0.0 or -0.0, by toolchain
  op,         \* the function called last
  ret,        \* the f64 it returned
  samp,       \* the SampleStatistics from_array returned
  pop,        \* the PopulationStatistics from_array returned
  samp_1,     \* first argument of two_samp_t_test
  samp_2,     \* second argument of two_samp_t_test
  result      \* the TTestResult two_samp_t_test returned

vars == <<array, sum_zero, op, ret, samp, pop, samp_1, samp_2, result>>

\* Marks an f64 slot nothing was written to.
Unset == [c |-> "unset", s |-> 0, k |-> 0]

SampleStatistics(sample_mean, standard_error, n) ==
  [sample_mean |-> sample_mean, standard_error |-> standard_error, n |-> n]

PopulationStatistics(population_mean, standard_error, n) ==
  [population_mean |-> population_mean, standard_error |-> standard_error, n |-> n]

TTestResult(t, p_value) == [t |-> t, p_value |-> p_value]

\* --------------------------------------------------------- the functions
\* Iterator::sum over list[i..], folding into acc from the left.
RECURSIVE IterSum(_, _, _)
IterSum(list, i, acc) ==
  IF i > Len(list) THEN acc ELSE IterSum(list, i + 1, FAdd(acc, list[i]))

\* mean with the sum divided by n - 1 instead of n.
mean_DivByNMinus1(list) ==
  LET sum == IterSum(list, 1, sum_zero)
  IN FDiv(sum, FSub(FromUsize(Len(list)), One))

mean(list) ==
  LET sum == IterSum(list, 1, sum_zero)
  IN FDiv(sum, FromUsize(Len(list)))

\* The loop with the mean left out of the deviation.
RECURSIVE SumSquares_NoMean(_, _, _, _)
SumSquares_NoMean(arr, m, i, sum) ==
  IF i > Len(arr) THEN sum
  ELSE SumSquares_NoMean(arr, m, i + 1, FAdd(sum, FPowf2(arr[i])))

\* for xi in array { sum += f64::powf(xi - m, 2.0) }, from array[i] on.
RECURSIVE SumSquares(_, _, _, _)
SumSquares(arr, m, i, sum) ==
  IF i > Len(arr) THEN sum
  ELSE SumSquares(arr, m, i + 1, FAdd(sum, FPowf2(FSub(arr[i], m))))

\* sample_standard_deviation with the divisor n of the population formula.
sample_standard_deviation_DivByN(arr) ==
  LET n == Len(arr)
      s_mean == mean(arr)
      sum == SumSquares(arr, s_mean, 1, PZero)
      sum2 == FDiv(sum, FromUsize(n))
  IN FSqrt(sum2)

\* sample_standard_deviation with the divisor n + 1.
sample_standard_deviation_DivByNPlus1(arr) ==
  LET n == Len(arr)
      s_mean == mean(arr)
      sum == SumSquares(arr, s_mean, 1, PZero)
      sum2 == FDiv(sum, FAdd(FromUsize(n), One))
  IN FSqrt(sum2)

\* sample_standard_deviation returning 0.0 early for fewer than two elements.
sample_standard_deviation_Guarded(arr) ==
  LET n == Len(arr)
      s_mean == mean(arr)
      sum == SumSquares(arr, s_mean, 1, PZero)
      sum2 == FDiv(sum, FSub(FromUsize(n), One))
  IN IF n < 2 THEN PZero ELSE FSqrt(sum2)

sample_standard_deviation(arr) ==
  LET n == Len(arr)
      s_mean == mean(arr)
      sum == SumSquares(arr, s_mean, 1, PZero)
      sum2 == FDiv(sum, FSub(FromUsize(n), One))
  IN FSqrt(sum2)

\* population_standard_deviation with the divisor n - 1 of the sample formula.
population_standard_deviation_Bessel(arr) ==
  LET n == Len(arr)
      p_mean == mean(arr)
      sum == SumSquares(arr, p_mean, 1, PZero)
      sum2 == FDiv(sum, FSub(FromUsize(n), One))
  IN FSqrt(sum2)

population_standard_deviation(arr) ==
  LET n == Len(arr)
      p_mean == mean(arr)
      sum == SumSquares(arr, p_mean, 1, PZero)
      sum2 == FDiv(sum, FromUsize(n))
  IN FSqrt(sum2)

\* SampleStatistics::from_array taking the population deviation.
SampleFromArray_PopulationDev(arr) ==
  LET n == Len(arr)
      sample_mean == mean(arr)
      standard_error == population_standard_deviation(arr)
  IN SampleStatistics(sample_mean, standard_error, n)

SampleFromArray(arr) ==
  LET n == Len(arr)
      sample_mean == mean(arr)
      standard_error == sample_standard_deviation(arr)
  IN SampleStatistics(sample_mean, standard_error, n)

PopulationFromArray(arr) ==
  LET n == Len(arr)
      population_mean == mean(arr)
      standard_error == population_standard_deviation(arr)
  IN PopulationStatistics(population_mean, standard_error, n)

\* The f64 the literal 0.05 denotes: the float nearest to 5/100.
PValueLiteral == Round(0, 5 * OneMag, 100)

\* two_samp_t_test without the square root.
two_samp_t_test_NoSqrt(s1, s2) ==
  LET mean_delta == FSub(s1.sample_mean, s2.sample_mean)
      stand == FAdd(FDiv(s1.standard_error, FromUsize(s1.n)),
                    FDiv(s2.standard_error, FromUsize(s2.n)))
      t == FDiv(mean_delta, stand)
      p_value == PValueLiteral
  IN TTestResult(t, p_value)

\* two_samp_t_test adding the means instead of subtracting them.
two_samp_t_test_MeanSum(s1, s2) ==
  LET mean_delta == FAdd(s1.sample_mean, s2.sample_mean)
      stand == FAdd(FDiv(s1.standard_error, FromUsize(s1.n)),
                    FDiv(s2.standard_error, FromUsize(s2.n)))
      t == FDiv(mean_delta, FSqrt(stand))
      p_value == PValueLiteral
  IN TTestResult(t, p_value)

\* two_samp_t_test multiplying by the square root instead of dividing by it.
two_samp_t_test_Times(s1, s2) ==
  LET mean_delta == FSub(s1.sample_mean, s2.sample_mean)
      stand == FAdd(FDiv(s1.standard_error, FromUsize(s1.n)),
                    FDiv(s2.standard_error, FromUsize(s2.n)))
      t == FMul(mean_delta, FSqrt(stand))
      p_value == PValueLiteral
  IN TTestResult(t, p_value)

two_samp_t_test(s1, s2) ==
  LET mean_delta == FSub(s1.sample_mean, s2.sample_mean)
      stand == FAdd(FDiv(s1.standard_error, FromUsize(s1.n)),
                    FDiv(s2.standard_error, FromUsize(s2.n)))
      t == FDiv(mean_delta, FSqrt(stand))
      p_value == PValueLiteral
  IN TTestResult(t, p_value)

\* ------------------------------------------------------------ the inputs
MinPositive == Fin(0, 1)
MaxFloat == Fin(0, MaxMag)
Two == FromUsize(2)
Three == FromUsize(3)

\* Observations the longer slices are built from.
Obs ==
  {NaN, PInf, NInf, PZero, NZero, MinPositive, One, FDiv(Three, Two), Two, Three,
   MaxFloat, FNeg(One), FNeg(MaxFloat)}

RECURSIVE SeqsUpTo(_, _)
SeqsUpTo(S, n) ==
  IF n = 0 THEN {<<>>}
  ELSE LET shorter == SeqsUpTo(S, n - 1)
       IN shorter \cup {Append(q, x) : q \in {r \in shorter : Len(r) = n - 1}, x \in S}

\* The slices: every slice of at most two floats of the format, and the
\* slices of up to MaxLen observations.
Arrays ==
  {<<>>} \cup {<<x>> : x \in Floats} \cup {<<x, y>> : x \in Floats, y \in Floats}
    \cup SeqsUpTo(Obs, MaxLen)

\* Field values of the SampleStatistics written as struct literals.
MeanVals == {NaN, PInf, NInf, PZero, One, Three, MaxFloat, FNeg(One)}
ErrVals == {NaN, PInf, NInf, PZero, NZero, MinPositive, One, MaxFloat, FNeg(One)}
SampleLiterals ==
  {SampleStatistics(m, e, n) : m \in MeanVals, e \in ErrVals, n \in 0..MaxN}

NoSample == SampleStatistics(Unset, Unset, 0)
NoPopulation == PopulationStatistics(Unset, Unset, 0)
NoResult == TTestResult(Unset, Unset)

\* ------------------------------------------------- the slice functions
Init ==
  /\ array \in Arrays
  /\ sum_zero \in {PZero, NZero}
  /\ op = "none"
  /\ ret = Unset
  /\ samp = NoSample
  /\ pop = NoPopulation
  /\ samp_1 = NoSample
  /\ samp_2 = NoSample
  /\ result = NoResult

CallMean ==
  /\ op = "none"
  /\ op' = "mean"
  /\ ret' = mean(array)
  /\ UNCHANGED <<array, sum_zero, samp, pop, samp_1, samp_2, result>>

CallSampleStandardDeviation ==
  /\ op = "none"
  /\ op' = "sample_standard_deviation"
  /\ ret' = sample_standard_deviation(array)
  /\ UNCHANGED <<array, sum_zero, samp, pop, samp_1, samp_2, result>>

CallPopulationStandardDeviation ==
  /\ op = "none"
  /\ op' = "population_standard_deviation"
  /\ ret' = population_standard_deviation(array)
  /\ UNCHANGED <<array, sum_zero, samp, pop, samp_1, samp_2, result>>

CallSampleFromArray ==
  /\ op = "none"
  /\ op' = "SampleStatistics::from_array"
  /\ samp' = SampleFromArray(array)
  /\ UNCHANGED <<array, sum_zero, ret, pop, samp_1, samp_2, result>>

CallPopulationFromArray ==
  /\ op = "none"
  /\ op' = "PopulationStatistics::from_array"
  /\ pop' = PopulationFromArray(array)
  /\ UNCHANGED <<array, sum_zero, ret, samp, samp_1, samp_2, result>>

Next ==
  \/ CallMean
  \/ CallSampleStandardDeviation
  \/ CallPopulationStandardDeviation
  \/ CallSampleFromArray
  \/ CallPopulationFromArray

Spec == Init /\ [][Next]_vars

\* ------------------------------------------------------------ the t-test
InitT ==
  /\ array = <<>>
  /\ sum_zero = PZero
  /\ op = "none"
  /\ ret = Unset
  /\ samp = NoSample
  /\ pop = NoPopulation
  /\ samp_1 \in SampleLiterals
  /\ samp_2 \in SampleLiterals
  /\ result = NoResult

CallTwoSampTTest ==
  /\ op = "none"
  /\ op' = "two_samp_t_test"
  /\ result' = two_samp_t_test(samp_1, samp_2)
  /\ UNCHANGED <<array, sum_zero, ret, samp, pop, samp_1, samp_2>>

NextT == CallTwoSampTTest

SpecT == InitT /\ [][NextT]_vars

\* ----------------------------------------------------------- the claims
\* The same number: equal under ==, or both NaN.
SameNumber(x, y) == (IsNaN(x) /\ IsNaN(y)) \/ FEq(x, y)

\* x1 + x2 + ... + xn of a non-empty sequence, added from the left.
RECURSIVE SumOf(_)
SumOf(s) ==
  IF Len(s) = 1 THEN s[1]
  ELSE FAdd(SumOf(SubSeq(s, 1, Len(s) - 1)), s[Len(s)])

\* (x1 - m)^2 + ... + (xn - m)^2 of a non-empty sequence, added from the left.
RECURSIVE SumOfSquaredDeviations(_, _)
SumOfSquaredDeviations(s, m) ==
  LET last == FMul(FSub(s[Len(s)], m), FSub(s[Len(s)], m))
  IN IF Len(s) = 1 THEN last
     ELSE FAdd(SumOfSquaredDeviations(SubSeq(s, 1, Len(s) - 1), m), last)

AllEqual(s) == \A i \in 1..Len(s) : s[i] = s[1]
AllFinite(s) == \A i \in 1..Len(s) : IsFinite(s[i])

MeanCalled == op = "mean"
SampleDevCalled == op = "sample_standard_deviation"
PopulationDevCalled == op = "population_standard_deviation"
TTestCalled == op = "two_samp_t_test"

NoNaN(s) == \A i \in 1..Len(s) : ~IsNaN(s[i])

\* C1 (as stated): for every slice of length n >= 1 mean returns the sum of
\* the elements divided by n; mean([x]) == x for every finite x, and
\* mean([a, b]) == (a + b) / 2 for every a, b.  Stated here for the slices
\* that hold no NaN: it fails on those already.
C1_MeanAsStated ==
  (MeanCalled /\ Len(array) >= 1 /\ NoNaN(array)) =>
    /\ SameNumber(ret, FDiv(SumOf(array), FromUsize(Len(array))))
    /\ (Len(array) = 1 /\ IsFinite(array[1])) => FEq(ret, array[1])
    /\ Len(array) = 2 => FEq(ret, FDiv(FAdd(array[1], array[2]), Two))

\* C1 (amended): for every slice of length n >= 1 mean returns the sum of
\* the elements divided by n; mean([x]) == x for every finite x, and
\* mean([a, b]) == (a + b) / 2 for every a, b whose sum a + b is not NaN
\* (when it is NaN, mean([a, b]) is NaN as well and == is false).
C1_Mean ==
  (MeanCalled /\ Len(array) >= 1) =>
    /\ SameNumber(ret, FDiv(SumOf(array), FromUsize(Len(array))))
    /\ (Len(array) = 1 /\ IsFinite(array[1])) => FEq(ret, array[1])
    /\ Len(array) = 2 =>
         IF IsNaN(FAdd(array[1], array[2])) THEN IsNaN(ret)
         ELSE FEq(ret, FDiv(FAdd(array[1], array[2]), Two))
    /\ array = <<One, Three>> => ret = Two

C1_Witness ==
  /\ MeanCalled /\ Len(array) = 2
  /\ IsFinite(array[1]) /\ IsFinite(array[2]) /\ array[1] # array[2]
  /\ FEq(ret, FDiv(FAdd(array[1], array[2]), Two))
  /\ IsFinite(ret) /\ ~IsZero(ret)

\* C2: for every slice of length n >= 2 sample_standard_deviation returns
\* sqrt(sum of (xi - mean(seq))^2 / (n - 1)), around the value mean returns
\* for the same slice; it is exactly 1 for [1, 2, 3].
C2_SampleStandardDeviation ==
  (SampleDevCalled /\ Len(array) >= 2) =>
    /\ ret = FSqrt(FDiv(SumOfSquaredDeviations(array, mean(array)),
                        FSub(FromUsize(Len(array)), One)))
    /\ array = <<One, Two, Three>> => ret = One

C2_Witness ==
  SampleDevCalled /\ array = <<One, Two, Three>> /\ ret = One

\* C3: for every slice of length n >= 1 population_standard_deviation
\* returns sqrt(sum of (xi - mean(seq))^2 / n): the sum of squared deviations
\* of sample_standard_deviation, divided by n instead of n - 1.
C3_PopulationStandardDeviation ==
  (PopulationDevCalled /\ Len(array) >= 1) =>
    /\ ret = FSqrt(FDiv(SumOfSquaredDeviations(array, mean(array)),
                        FromUsize(Len(array))))
    /\ array = <<One, Three>> => ret = One

C3_Witness ==
  PopulationDevCalled /\ array = <<One, Three>> /\ ret = One

\* C4: SampleStatistics::from_array(seq) has n = length of seq, sample_mean =
\* mean(seq) and standard_error = sample_standard_deviation(seq), and
\* PopulationStatistics::from_array(seq) has n = length of seq,
\* population_mean = mean(seq) and standard_error =
\* population_standard_deviation(seq).
C4_FromArray ==
  /\ op = "SampleStatistics::from_array" =>
       /\ samp.n = Len(array)
       /\ samp.sample_mean = mean(array)
       /\ samp.standard_error = sample_standard_deviation(array)
  /\ op = "PopulationStatistics::from_array" =>
       /\ pop.n = Len(array)
       /\ pop.population_mean = mean(array)
       /\ pop.standard_error = population_standard_deviation(array)

C4_Witness ==
  /\ op = "SampleStatistics::from_array"
  /\ Len(array) = 3
  /\ samp.n = 3
  /\ IsFinite(samp.sample_mean)
  /\ IsFinite(samp.standard_error) /\ ~IsZero(samp.standard_error)
  /\ samp.standard_error # population_standard_deviation(array)

\* C5: for every pair of SampleStatistics two_samp_t_test returns t =
\* (mean_1 - mean_2) / sqrt((std_err_1 / n_1) + (std_err_2 / n_2)) and the
\* p_value 0.05, whatever the inputs.
C5_TTest ==
  TTestCalled =>
    /\ result.t =
         FDiv(FSub(samp_1.sample_mean, samp_2.sample_mean),
              FSqrt(FAdd(FDiv(samp_1.standard_error, FromUsize(samp_1.n)),
                         FDiv(samp_2.standard_error, FromUsize(samp_2.n)))))
    /\ result.p_value = Round(0, 5 * OneMag, 100)
    /\ (/\ samp_1 = SampleStatistics(Three, One, 1)
        /\ samp_2 = SampleStatistics(One, One, 1)) => FEq(result.t, FDiv(Two, FSqrt(Two)))

C5_Witness ==
  /\ TTestCalled
  /\ samp_1 = SampleStatistics(Three, One, 1)
  /\ samp_2 = SampleStatistics(One, One, 1)
  /\ IsFinite(result.t) /\ ~IsZero(result.t)

\* C6 (as stated): two_samp_t_test applied to two identical SampleStatistics
\* yields t == 0, for every such pair.  Stated here for the values a sample
\* can have (finite mean, finite standard error >= 0, n >= 1): it fails on
\* those already.
C6_IdenticalAsStated ==
  (/\ TTestCalled /\ samp_1 = samp_2
   /\ IsFinite(samp_1.sample_mean)
   /\ IsFinite(samp_1.standard_error) /\ FLe(PZero, samp_1.standard_error)
   /\ samp_1.n >= 1) =>
    FEq(result.t, PZero)

\* C6 (amended): two_samp_t_test applied to two identical SampleStatistics
\* yields t == 0 for every such pair whose mean is finite and whose
\* standard_error / n is greater than zero; for every other such pair (a zero,
\* negative or NaN standard error, a quotient that underflows to zero, a mean
\* that is not finite) t is NaN.
C6_Identical ==
  (TTestCalled /\ samp_1 = samp_2) =>
    IF /\ IsFinite(samp_1.sample_mean)
       /\ FLe(PZero, FDiv(samp_1.standard_error, FromUsize(samp_1.n)))
       /\ ~IsZero(FDiv(samp_1.standard_error, FromUsize(samp_1.n)))
    THEN FEq(result.t, PZero)
    ELSE IsNaN(result.t)

C6_Witness ==
  /\ TTestCalled /\ samp_1 = samp_2
  /\ samp_1 = SampleStatistics(Three, One, 2)
  /\ FEq(result.t, PZero)

\* C7 (as stated): for every slice of length n >= 2 whose elements are not
\* all equal, population_standard_deviation(seq) <=
\* sample_standard_deviation(seq).  Stated here for the slices that hold no
\* NaN: it fails on those already.
C7_OrderAsStated ==
  (PopulationDevCalled /\ Len(array) >= 2 /\ ~AllEqual(array) /\ NoNaN(array)) =>
    FLe(ret, sample_standard_deviation(array))

\* C7 (amended): for every slice of length n >= 2 whose elements are finite
\* and not all equal, population_standard_deviation(seq) <=
\* sample_standard_deviation(seq); a slice that holds an infinity or a NaN
\* makes both NaN, and NaN <= NaN is false.
C7_Order ==
  (PopulationDevCalled /\ Len(array) >= 2 /\ ~AllEqual(array)) =>
    IF AllFinite(array)
    THEN FLe(ret, sample_standard_deviation(array))
    ELSE IsNaN(ret) /\ IsNaN(sample_standard_deviation(array))

C7_Witness ==
  /\ PopulationDevCalled /\ array = <<One, Three>>
  /\ FLe(ret, sample_standard_deviation(array))
  /\ ~FEq(ret, sample_standard_deviation(array))

\* C8 (as stated): for every constant slice of length n >= 2 both
\* sample_standard_deviation and population_standard_deviation return 0.
\* Stated here for the slices of finite elements: it fails on those already.
C8_ConstantAsStated ==
  (/\ SampleDevCalled \/ PopulationDevCalled
   /\ Len(array) >= 2 /\ AllEqual(array) /\ AllFinite(array)) =>
    FEq(ret, PZero)

\* C8 (amended): for every constant slice of length n >= 2 whose common
\* element x is finite and whose mean is computed without rounding error or
\* overflow (mean(seq) == x), both sample_standard_deviation and
\* population_standard_deviation return 0.
C8_Constant ==
  (/\ SampleDevCalled \/ PopulationDevCalled
   /\ Len(array) >= 2 /\ AllEqual(array)
   /\ IsFinite(array[1]) /\ FEq(mean(array), array[1])) =>
    FEq(ret, PZero)

C8_Witness ==
  /\ SampleDevCalled
  /\ array = <<One, One, One>>
  /\ FEq(mean(array), One)
  /\ FEq(ret, PZero)

\* C9 (as stated): whenever both inputs have zero standard error, or both
\* have infinite standard error, or either input has n = 0, two_samp_t_test
\* returns a t that is not finite (NaN or infinite).
C9_NonFiniteAsStated ==
  (/\ TTestCalled
   /\ \/ IsZero(samp_1.standard_error) /\ IsZero(samp_2.standard_error)
      \/ IsInf(samp_1.standard_error) /\ IsInf(samp_2.standard_error)
      \/ samp_1.n = 0
      \/ samp_2.n = 0) =>
    ~IsFinite(result.t)

\* C9 (amended): two_samp_t_test has no error path, it returns a TTestResult
\* for every input.  Whenever both inputs have zero standard error its t is
\* not finite (NaN or infinite).  Whenever both have infinite standard error,
\* or either input has n = 0, its t is NaN or zero, never infinite: the term
\* under the square root is then infinite or NaN, and a finite mean difference
\* divided by infinity is 0.
C9_NonFinite ==
  TTestCalled =>
    /\ result.t \in Floats
    /\ (IsZero(samp_1.standard_error) /\ IsZero(samp_2.standard_error)) =>
         ~IsFinite(result.t)
    /\ (\/ IsInf(samp_1.standard_error) /\ IsInf(samp_2.standard_error)
        \/ samp_1.n = 0
        \/ samp_2.n = 0) =>
         (IsNaN(result.t) \/ IsZero(result.t))
    /\ (/\ samp_1.standard_error = PInf /\ samp_2.standard_error = PInf
        /\ IsFinite(FSub(samp_1.sample_mean, samp_2.sample_mean))) =>
         IsZero(result.t)

C9_Witness ==
  /\ TTestCalled
  /\ samp_1 = SampleStatistics(Three, PZero, 2)
  /\ samp_2 = SampleStatistics(One, PZero, 2)
  /\ result.t = PInf

\* C10 (as stated): for every slice of length n <= 1 sample_standard_deviation
\* returns NaN or an infinite value, never a finite number.
C10_ShortAsStated ==
  (SampleDevCalled /\ Len(array) <= 1) => ~IsFinite(ret)

\* C10 (amended): sample_standard_deviation rejects no slice.  For every
\* slice of length 1 it returns NaN (0/0); for the empty slice it returns the
\* finite number -0.0 (the empty sum 0.0 divided by -1.0).
C10_Short ==
  SampleDevCalled =>
    /\ ret \in Floats
    /\ Len(array) = 1 => IsNaN(ret)
    /\ Len(array) = 0 => ret = NZero

C10_Witness ==
  SampleDevCalled /\ array = <<>> /\ ret = NZero
====
